---- MODULE Spec2Model ----
(***************************************************************************)
(* Model of app.py: a Flask-RESTful to-do service.  The module-level list  *)
(* `tasks` is the only program state; five handlers (TaskListAPI.get/post, *)
(* TaskAPI.get/put/delete) act on it behind auth.login_required.           *)
(***************************************************************************)
EXTENDS Integers, Sequences, FiniteSets, TLC

VARIABLES
    tasks,    \* app.py:27  the module-level list of task dicts
    req,      \* the request being answered (NoReq between requests)
    resp,     \* the status code answered to req (0 between requests)
    prev,     \* history: tasks and issued as they were when req arrived
    issued,   \* history: every id ever given to a task
    pc,       \* per worker thread: where it is inside TaskListAPI.post
    local     \* per worker thread: the task dict built by TaskListAPI.post

vars == <<tasks, req, resp, prev, issued, pc, local>>

----------------------------------------------------------------------------
(* Bounds of the model *)

\* ids above MaxId are never assigned: a POST that would assign one is not taken
MaxId == 3
\* in the threaded specification a POST handler starts only while the store
\* holds fewer than MaxTasks tasks
MaxTasks == 3

Threads == {"w1", "w2"}

----------------------------------------------------------------------------
(* Python / JSON values.  k is the kind: "absent" marks a key that the JSON *)
(* object does not have, "none" is JSON null and Python None.               *)

Val(k, s, b, n) == [k |-> k, s |-> s, b |-> b, n |-> n]
Absent  == Val("absent", "", FALSE, 0)
None    == Val("none", "", FALSE, 0)
Str(s)  == Val("str", s, FALSE, 0)
Bool(b) == Val("bool", "", b, 0)
Num(n)  == Val("num", "", FALSE, n)

Digits == <<"0", "1", "2", "3", "4", "5", "6", "7", "8", "9">>

\* reqparse type=str: Argument.convert ends in str(value)
str(v) ==
    CASE v.k = "str"  -> v
      [] v.k = "bool" -> Str(IF v.b THEN "True" ELSE "False")
      [] v.k = "num"  -> Str(Digits[v.n + 1])
      [] OTHER        -> Str("None")

\* reqparse type=bool: Argument.convert ends in bool(value), Python truthiness
bool(v) ==
    CASE v.k = "str"  -> Bool(v.s # "")
      [] v.k = "bool" -> v
      [] v.k = "num"  -> Bool(v.n # 0)
      [] OTHER        -> Bool(FALSE)

----------------------------------------------------------------------------
(* Authentication *)

NoAuth == [present |-> FALSE, username |-> "", password |-> ""]
Basic(u, p) == [present |-> TRUE, username |-> u, password |-> p]

get_password(username) ==
    IF username = "user1" THEN Str("password") ELSE None

\* mutant: the stored password is looked up and never compared
authenticate_ignores_password(auth) ==
    /\ auth.present
    /\ get_password(auth.username) # None

\* auth.login_required with a get_password callback: the request carries
\* credentials and the password equals the one stored for the username
authenticate(auth) ==
    /\ auth.present
    /\ get_password(auth.username) # None
    /\ Str(auth.password) = get_password(auth.username)

\* the error handler's status code
unauthorized == 403

----------------------------------------------------------------------------
(* The store *)

Task(id, title, description, done) ==
    [id |-> id, title |-> title, description |-> description, done |-> done]

InitialTasks ==
    << Task(1, Str("Buy groceries"), Str("Milk, Cheese, Pizza, Fruit"), Bool(FALSE)),
       Task(2, Str("Learn Python"),
            Str("Need to find a good Python tutorial on the web"), Bool(FALSE)) >>

\* what a worker thread holds when it has built no task
NoTask == Task(0, None, None, None)

\* [task for task in tasks if task['id'] == id], as the indices that match
Matching(ts, id) == {i \in 1..Len(ts) : ts[i].id = id}

Min(S) == CHOOSE x \in S : \A y \in S : x <= y

\* mutant: tasks.pop() in place of tasks.remove(x)
Remove_last(ts, x) == SubSeq(ts, 1, Len(ts) - 1)

\* list.remove(x): drops the first element equal to x
Remove(ts, x) ==
    LET i == Min({j \in 1..Len(ts) : ts[j] = x})
    IN  [j \in 1..(Len(ts) - 1) |-> IF j < i THEN ts[j] ELSE ts[j + 1]]

\* mutant: len(tasks) + 1
NewId_count(ts) == Len(ts) + 1

\* mutant: tasks[0]['id'] + 1
NewId_first(ts) == IF Len(ts) > 0 THEN ts[1].id + 1 ELSE 1

\* tasks[-1]['id'] + 1 if len(tasks) > 0 else 1
NewId(ts) == IF Len(ts) > 0 THEN ts[Len(ts)].id + 1 ELSE 1

----------------------------------------------------------------------------
(* Request bodies and the two request parsers *)

Body(wf, title, description, done, id) ==
    [wellformed |-> wf, title |-> title, description |-> description,
     done |-> done, id |-> id]
NoBody    == Body(TRUE, Absent, Absent, Absent, Absent)
Malformed == Body(FALSE, Absent, Absent, Absent, Absent)

\* Argument.parse for one argument: a missing key gives the default, null
\* stays None (nullable), anything else goes through the type
ParseArg(v, type, default) ==
    IF v.k = "absent" THEN default
    ELSE IF v.k = "none" THEN None
    ELSE IF type = "str" THEN str(v) ELSE bool(v)

\* TaskListAPI.__init__: title (str, required), description (str, default "")
PostArgs(body) ==
    [title |-> ParseArg(body.title, "str", None),
     description |-> ParseArg(body.description, "str", Str(""))]

\* mutant: title declared without required=True
PostRejects_title_optional(body) == ~body.wellformed

\* mutant: an empty title refused as well
PostRejects_empty_title(body) ==
    ~body.wellformed \/ body.title.k = "absent" \/ body.title = Str("")

\* TaskListAPI.reqparse.parse_args() answers 400: the body is not JSON, or the
\* required title key is missing
PostRejects(body) == ~body.wellformed \/ body.title.k = "absent"

\* TaskAPI.__init__: title (str), description (str), done (bool), default None
PutArgs(body) ==
    [title |-> ParseArg(body.title, "str", None),
     description |-> ParseArg(body.description, "str", None),
     done |-> ParseArg(body.done, "bool", None)]

\* TaskAPI.reqparse.parse_args() answers 400: the body is not JSON
PutRejects(body) == ~body.wellformed

\* mutant: task[k] = v without the test for None
Patch_writes_none(task, args) ==
    [k \in DOMAIN task |-> IF k \in DOMAIN args THEN args[k] ELSE task[k]]

\* for k, v in args.items(): if v is not None: task[k] = v
Patch(task, args) ==
    [k \in DOMAIN task |->
        IF k \in DOMAIN args /\ args[k] # None THEN args[k] ELSE task[k]]

----------------------------------------------------------------------------
(* The handlers as functions from the store and the request to the answer  *)

Answer(status, ts) == [status |-> status, tasks |-> ts]

TaskListAPI_get(ts) == Answer(200, ts)

post_task(ts, args) == Task(NewId(ts), args.title, args.description, Bool(FALSE))

TaskListAPI_post(ts, body) ==
    IF PostRejects(body) THEN Answer(400, ts)
    ELSE Answer(201, Append(ts, post_task(ts, PostArgs(body))))

TaskAPI_get(ts, id) ==
    IF Matching(ts, id) = {} THEN Answer(404, ts) ELSE Answer(200, ts)

\* mutant: parse_args() called before the lookup
TaskAPI_put_parses_first(ts, id, body) ==
    IF PutRejects(body) THEN Answer(400, ts)
    ELSE IF Matching(ts, id) = {} THEN Answer(404, ts)
    ELSE LET i == Min(Matching(ts, id))
         IN  Answer(200, [ts EXCEPT ![i] = Patch(ts[i], PutArgs(body))])

\* mutant: the parser also declares an integer id argument
TaskAPI_put_takes_id(ts, id, body) ==
    IF Matching(ts, id) = {} THEN Answer(404, ts)
    ELSE IF PutRejects(body) THEN Answer(400, ts)
    ELSE LET i == Min(Matching(ts, id))
             t == Patch(ts[i], PutArgs(body))
         IN  Answer(200, [ts EXCEPT ![i] =
                 IF body.id.k = "num" THEN [t EXCEPT !.id = body.id.n] ELSE t])

TaskAPI_put(ts, id, body) ==
    IF Matching(ts, id) = {} THEN Answer(404, ts)
    ELSE IF PutRejects(body) THEN Answer(400, ts)
    ELSE LET i == Min(Matching(ts, id))
         IN  Answer(200, [ts EXCEPT ![i] = Patch(ts[i], PutArgs(body))])

TaskAPI_delete(ts, id) ==
    IF Matching(ts, id) = {} THEN Answer(404, ts)
    ELSE Answer(200, Remove(ts, ts[Min(Matching(ts, id))]))

\* decorators = [auth.login_required]: the handler runs only when authenticated
login_required(auth, ts, answer) ==
    IF authenticate(auth) THEN answer ELSE Answer(unauthorized, ts)

----------------------------------------------------------------------------
(* Inputs *)

GoodCredentials == Basic("user1", "password")

AuthValues ==
    {NoAuth, GoodCredentials, Basic("user1", "wrong"), Basic("user2", "password")}

TitleValues       == {None, Str(""), Str("Buy milk")}
DescriptionValues == {None, Str("x")}
DoneValues        == {None, Bool(TRUE), Bool(FALSE), Str("false")}
IdKeyValues       == {Num(1)}

\* the object with every key set
FullBody == Body(TRUE, Str("Buy milk"), Str("x"), Bool(TRUE), Num(1))

\* POST bodies: not JSON, or an object with or without a title and a description
PostBodies ==
    {Malformed} \cup
    {Body(TRUE, t, d, Absent, Absent) :
        t \in {Absent, Str(""), Str("Buy milk")}, d \in {Absent, Str("x")}}

\* PUT bodies: not JSON, the empty object, every object with one key, the
\* object with all keys null and the object with all keys set
PutBodies ==
    {Malformed, NoBody, FullBody, Body(TRUE, None, None, None, None)}
    \cup {Body(TRUE, t, Absent, Absent, Absent) : t \in TitleValues}
    \cup {Body(TRUE, Absent, d, Absent, Absent) : d \in DescriptionValues}
    \cup {Body(TRUE, Absent, Absent, dn, Absent) : dn \in DoneValues}
    \cup {Body(TRUE, Absent, Absent, Absent, i) : i \in IdKeyValues}

\* the bodies sent with every credential: one no parser accepts, one both accept
ProbeBodies == {Malformed, FullBody}

\* credentials and bodies of the requests that carry a body: every body with
\* the good credentials, and the probe bodies with every credential
Senders(bodies) ==
    {<<GoodCredentials, b>> : b \in bodies} \cup (AuthValues \X ProbeBodies)

RequestIds == 1..MaxId

Request(method, endpoint, id, auth, body) ==
    [method |-> method, endpoint |-> endpoint, id |-> id, auth |-> auth,
     body |-> body]
NoReq == Request("", "", 0, NoAuth, NoBody)

Snapshot == [tasks |-> tasks, issued |-> issued]

IdsOf(ts) == {ts[i].id : i \in 1..Len(ts)}

----------------------------------------------------------------------------
(* Serialized operation: one request is answered at a time *)

Init ==
    /\ tasks = InitialTasks
    /\ req = NoReq
    /\ resp = 0
    /\ issued = IdsOf(InitialTasks)
    /\ prev = [tasks |-> InitialTasks, issued |-> IdsOf(InitialTasks)]
    /\ pc = [t \in Threads |-> "idle"]
    /\ local = [t \in Threads |-> NoTask]

\* the server is between requests
Ready == resp = 0 /\ \A t \in Threads : pc[t] = "idle"

\* one request handled from arrival to answer
Handle(r, answer) ==
    /\ IdsOf(answer.tasks) \subseteq 1..MaxId
    /\ req' = r
    /\ resp' = answer.status
    /\ prev' = Snapshot
    /\ tasks' = answer.tasks
    /\ issued' = issued \cup IdsOf(answer.tasks)
    /\ UNCHANGED <<pc, local>>

GetTasks ==
    /\ Ready
    /\ \E a \in AuthValues :
        Handle(Request("GET", "tasks", 0, a, NoBody),
               login_required(a, tasks, TaskListAPI_get(tasks)))

PostTask ==
    /\ Ready
    /\ \E s \in Senders(PostBodies) :
        Handle(Request("POST", "tasks", 0, s[1], s[2]),
               login_required(s[1], tasks, TaskListAPI_post(tasks, s[2])))

GetTask ==
    /\ Ready
    /\ \E a \in AuthValues, id \in RequestIds :
        Handle(Request("GET", "task", id, a, NoBody),
               login_required(a, tasks, TaskAPI_get(tasks, id)))

PutTask ==
    /\ Ready
    /\ \E s \in Senders(PutBodies), id \in RequestIds :
        Handle(Request("PUT", "task", id, s[1], s[2]),
               login_required(s[1], tasks, TaskAPI_put(tasks, id, s[2])))

DeleteTask ==
    /\ Ready
    /\ \E a \in AuthValues, id \in RequestIds :
        Handle(Request("DELETE", "task", id, a, NoBody),
               login_required(a, tasks, TaskAPI_delete(tasks, id)))

\* the answer leaves; the server is ready for the next request
Respond ==
    /\ resp # 0
    /\ req' = NoReq
    /\ resp' = 0
    /\ prev' = Snapshot
    /\ UNCHANGED <<tasks, issued, pc, local>>

Next == GetTasks \/ PostTask \/ GetTask \/ PutTask \/ DeleteTask \/ Respond

Spec == Init /\ [][Next]_vars

----------------------------------------------------------------------------
(* Threaded operation: TaskListAPI.post in two steps, with no lock between  *)
(* reading tasks[-1]['id'] and tasks.append(task)                           *)

\* lines 102-108: authenticate, parse, build the task dict with its new id
post_build(t) ==
    /\ resp = 0
    /\ pc[t] = "idle"
    /\ Len(tasks) < MaxTasks
    /\ NewId(tasks) <= MaxId
    /\ \E a \in AuthValues, b \in PostBodies :
        /\ authenticate(a)
        /\ ~PostRejects(b)
        /\ local' = [local EXCEPT ![t] = post_task(tasks, PostArgs(b))]
    /\ pc' = [pc EXCEPT ![t] = "built"]
    /\ UNCHANGED <<tasks, req, resp, prev, issued>>

\* line 109: tasks.append(task)
post_append(t) ==
    /\ pc[t] = "built"
    /\ tasks' = Append(tasks, local[t])
    /\ issued' = issued \cup {local[t].id}
    /\ pc' = [pc EXCEPT ![t] = "idle"]
    /\ local' = [local EXCEPT ![t] = NoTask]
    /\ UNCHANGED <<req, resp, prev>>

\* lines 144-148: an authenticated DELETE of an existing id, run by a thread
\* that is between two handlers
delete_task(t) ==
    /\ resp = 0
    /\ pc[t] = "idle"
    /\ \E id \in IdsOf(tasks) : tasks' = TaskAPI_delete(tasks, id).tasks
    /\ UNCHANGED <<req, resp, prev, issued, pc, local>>

NextThreaded ==
    \E t \in Threads : post_build(t) \/ post_append(t) \/ delete_task(t)

SpecThreaded == Init /\ [][NextThreaded]_vars

----------------------------------------------------------------------------
(* Vocabulary of the properties *)

Handled   == resp # 0
GoodAuth  == req.auth.username = "user1" /\ req.auth.password = "password"
Is(m, e)  == req.method = m /\ req.endpoint = e
Existed   == \E i \in 1..Len(prev.tasks) : prev.tasks[i].id = req.id
Unchanged == tasks = prev.tasks
Last(ts)  == ts[Len(ts)]
Max(S)    == CHOOSE x \in S : \A y \in S : y <= x
IdSeq(ts) == [i \in 1..Len(ts) |-> ts[i].id]
\* ts without its element at index i
Without(ts, i) ==
    [j \in 1..(Len(ts) - 1) |-> IF j < i THEN ts[j] ELSE ts[j + 1]]
Given(v)  == v.k # "absent" /\ v.k # "none"

----------------------------------------------------------------------------
\* C1: a request that does not carry exactly (user1, password) is answered
\* 403 and leaves the store as it was, on every endpoint, whatever its body
\* and id and whatever was answered before.
C1_UnauthorizedIs403 ==
    (Handled /\ ~GoodAuth) => (resp = 403 /\ Unchanged)

\* a PUT with a right username and a wrong password, a valid body and an
\* existing id, refused after earlier authenticated requests changed the store
C1_Witness ==
    /\ Is("PUT", "task")
    /\ req.auth = Basic("user1", "wrong")
    /\ req.body = FullBody
    /\ Existed
    /\ resp = 403
    /\ tasks # InitialTasks

\* C2: an authenticated PUT on an existing id with a JSON body answers 200
\* and overwrites, in that task only, exactly the fields given with a
\* non-null value; id, the other fields, the other tasks and the order stay;
\* the same PUT again leaves the store as it is.
C2_PutIsPartialUpdate ==
    (Is("PUT", "task") /\ GoodAuth /\ Existed /\ req.body.wellformed) =>
        /\ resp = 200
        /\ Len(tasks) = Len(prev.tasks)
        /\ \A i \in 1..Len(tasks) :
            /\ tasks[i].id = prev.tasks[i].id
            /\ tasks[i].id # req.id => tasks[i] = prev.tasks[i]
            /\ tasks[i].id = req.id =>
                /\ ~Given(req.body.title) => tasks[i].title = prev.tasks[i].title
                /\ ~Given(req.body.description) =>
                       tasks[i].description = prev.tasks[i].description
                /\ ~Given(req.body.done) => tasks[i].done = prev.tasks[i].done
                /\ req.body.title.k = "str" => tasks[i].title = req.body.title
                /\ req.body.description.k = "str" =>
                       tasks[i].description = req.body.description
                /\ req.body.done.k = "bool" => tasks[i].done = req.body.done
                /\ Given(req.body.done) => tasks[i].done.k = "bool"
        /\ TaskAPI_put(tasks, req.id, req.body).tasks = tasks

\* {done: true} on a task that was not done, title and description kept
C2_Witness ==
    /\ Is("PUT", "task") /\ GoodAuth /\ resp = 200
    /\ req.body = Body(TRUE, Absent, Absent, Bool(TRUE), Absent)
    /\ \E i \in 1..Len(tasks) :
        /\ tasks[i].id = req.id
        /\ prev.tasks[i].done = Bool(FALSE)
        /\ tasks[i].done = Bool(TRUE)
        /\ tasks[i].title = Str("Buy groceries")

\* C3: an authenticated DELETE on an existing id answers 200 and removes the
\* task with that id and no other: the rest keep their values and order, the
\* length drops by one and a GET for the id then answers 404.
C3_DeleteRemovesOne ==
    (Is("DELETE", "task") /\ GoodAuth /\ Existed) =>
        /\ resp = 200
        /\ Len(tasks) = Len(prev.tasks) - 1
        /\ \E i \in 1..Len(prev.tasks) :
            /\ prev.tasks[i].id = req.id
            /\ tasks = Without(prev.tasks, i)
        /\ req.id \notin IdsOf(tasks)
        /\ TaskAPI_get(tasks, req.id).status = 404

\* the first of three tasks deleted
C3_Witness ==
    /\ Is("DELETE", "task") /\ GoodAuth /\ resp = 200
    /\ Len(prev.tasks) = 3
    /\ prev.tasks[1].id = req.id
    /\ Len(tasks) = 2

\* C4: the last task always has the greatest id, and an authenticated POST
\* with a title appends one task whose id is the greatest id plus one (1 for
\* the empty store), done false, title and description as sent (description
\* "" when absent), keeps the tasks that were there and answers 201.
C4_PostAppendsMaxPlusOne ==
    /\ \A i \in 1..Len(tasks) : tasks[i].id <= Last(tasks).id
    /\ (Is("POST", "tasks") /\ GoodAuth /\ req.body.wellformed
            /\ req.body.title.k # "absent") =>
        /\ resp = 201
        /\ Len(tasks) = Len(prev.tasks) + 1
        /\ SubSeq(tasks, 1, Len(prev.tasks)) = prev.tasks
        /\ Last(tasks).id = IF prev.tasks = <<>> THEN 1
                            ELSE Max(IdsOf(prev.tasks)) + 1
        /\ Last(tasks).done = Bool(FALSE)
        /\ req.body.title.k = "str" => Last(tasks).title = req.body.title
        /\ req.body.description.k = "str" =>
               Last(tasks).description = req.body.description
        /\ req.body.description.k = "absent" =>
               Last(tasks).description = Str("")

\* a title and no description, posted to a store whose first task was deleted
C4_Witness ==
    /\ Is("POST", "tasks") /\ GoodAuth /\ resp = 201
    /\ req.body = Body(TRUE, Str("Buy milk"), Absent, Absent, Absent)
    /\ IdSeq(prev.tasks) = <<2>>
    /\ Last(tasks) = Task(3, Str("Buy milk"), Str(""), Bool(FALSE))

\* C5: an authenticated GET, PUT or DELETE on an id that no task has answers
\* 404 and leaves the store as it was, whatever the body of the PUT.
C5_MissingIdIs404 ==
    (Handled /\ req.endpoint = "task" /\ GoodAuth /\ ~Existed) =>
        (resp = 404 /\ Unchanged)

\* a PUT whose body is not JSON, on an id that was deleted
C5_Witness ==
    /\ Is("PUT", "task") /\ GoodAuth /\ ~Existed
    /\ req.body = Malformed
    /\ req.id \in prev.issued
    /\ resp = 404

\* C6: an authenticated POST whose body has no title answers 400 and leaves
\* the store, and with it the id of the next POST, as it was.
C6_PostWithoutTitleIs400 ==
    (Is("POST", "tasks") /\ GoodAuth /\ req.body.title.k = "absent") =>
        /\ resp = 400
        /\ Unchanged
        /\ NewId(tasks) = NewId(prev.tasks)
        /\ issued = prev.issued

\* a JSON body with a description and no title
C6_Witness ==
    /\ Is("POST", "tasks") /\ GoodAuth /\ resp = 400
    /\ req.body = Body(TRUE, Absent, Str("x"), Absent, Absent)
    /\ Len(tasks) = 1

\* C7: no two tasks in the store have the same id, and no request changes the
\* id of a task in the store: the ids are those before the request, in the
\* same order, with at most one appended or one removed.
C7_IdsUniqueAndImmutable ==
    /\ \A i, j \in 1..Len(tasks) : tasks[i].id = tasks[j].id => i = j
    /\ Handled =>
        IF Is("POST", "tasks") /\ resp = 201
        THEN /\ Len(tasks) = Len(prev.tasks) + 1
             /\ \A i \in 1..Len(prev.tasks) : tasks[i].id = prev.tasks[i].id
        ELSE IF Is("DELETE", "task") /\ resp = 200
        THEN \E i \in 1..Len(prev.tasks) :
                IdSeq(tasks) = Without(IdSeq(prev.tasks), i)
        ELSE /\ Len(tasks) = Len(prev.tasks)
             /\ \A i \in 1..Len(tasks) : tasks[i].id = prev.tasks[i].id

\* a PUT whose body carries an id key, accepted, on the second of three tasks
C7_Witness ==
    /\ Is("PUT", "task") /\ GoodAuth /\ resp = 200
    /\ req.body.id = Num(1)
    /\ req.id = 2
    /\ IdSeq(tasks) = <<1, 2, 3>>

\* C8 as stated: the id a POST assigns was never assigned before.
C8_IdsNeverReused ==
    (Is("POST", "tasks") /\ resp = 201) => Last(tasks).id \notin prev.issued

\* C8 amended: the id a POST assigns is greater than the id of every task
\* then in the store, so it differs from the id of every task still present;
\* an id assigned before is assigned again only when its task is gone.
C8_IdsUniqueAmongPresent ==
    (Is("POST", "tasks") /\ resp = 201) =>
        /\ \A i \in 1..Len(prev.tasks) : Last(tasks).id > prev.tasks[i].id
        /\ Last(tasks).id \in prev.issued =>
               Last(tasks).id \notin IdsOf(prev.tasks)

\* an id given again after its task was deleted
C8_Witness ==
    /\ Is("POST", "tasks") /\ resp = 201
    /\ Last(tasks).id \in prev.issued

\* C9 as stated: every title in the store is a non-empty string, and a POST
\* or PUT that supplies the empty title is answered 400 and changes nothing.
C9_TitleNonEmpty ==
    /\ \A i \in 1..Len(tasks) : tasks[i].title.k = "str" /\ tasks[i].title.s # ""
    /\ (Handled /\ GoodAuth /\ req.body.title = Str("")
            /\ (Is("POST", "tasks") \/ (Is("PUT", "task") /\ Existed))) =>
        (resp = 400 /\ Unchanged)

\* C9 amended: a title has to be present on creation and need not be
\* non-empty: a POST with the empty title answers 201 and stores it, a PUT
\* with the empty title on an existing id answers 200 and stores it.
C9_EmptyTitleAccepted ==
    /\ (Is("POST", "tasks") /\ GoodAuth /\ req.body.title = Str("")) =>
        (resp = 201 /\ Last(tasks).title = Str("")
            /\ Len(tasks) = Len(prev.tasks) + 1)
    /\ (Is("PUT", "task") /\ GoodAuth /\ Existed /\ req.body.title = Str("")) =>
        /\ resp = 200
        /\ \A i \in 1..Len(tasks) :
               tasks[i].id = req.id => tasks[i].title = Str("")
    /\ (Is("POST", "tasks") /\ GoodAuth /\ req.body.title.k = "absent") =>
        resp = 400

\* the empty title put on a task that had a title
C9_Witness ==
    /\ Is("PUT", "task") /\ GoodAuth /\ resp = 200
    /\ req.body.title = Str("")
    /\ \E i \in 1..Len(tasks) :
        /\ tasks[i].id = req.id
        /\ prev.tasks[i].title = Str("Learn Python")
        /\ tasks[i].title = Str("")

\* C10: with two POST handlers interleaving between the read of the last id
\* and the append, the store still holds no two tasks with the same id.
C10_NoDuplicateIdsThreaded ==
    Cardinality(IdsOf(tasks)) = Len(tasks)

====
